---- MODULE Spec2Model ----
(***************************************************************************)
(* Model of the notebook aas_233_workshop/05-FITS/io_fits_ascii_overview.  *)
(* The notebook is a script of cells that drive astropy.io.fits and        *)
(* astropy.io.ascii.  The state is what the cells bind and touch: the FITS *)
(* file on disk, the HDUList `f` (its in-memory header and image array,    *)
(* its file handle), the array `scidata` taken from it, and the table      *)
(* returned by ascii.read.  Each action is one statement of a cell with    *)
(* the behaviour the called library function has at that call.             *)
(*                                                                         *)
(* One header is tracked per container (the header the cell indexes) and   *)
(* one image array (the primary HDU's data).                               *)
(***************************************************************************)
EXTENDS Integers, Sequences, FiniteSets, TLC

\* ------------------------------------------------------------------ bounds
MaxOps    == 2      \* statements executed in one run of the model
MaxViews  == 1      \* arrays taken from the container that are kept alive
NPix      == 2      \* elements of the image array
MaxLines  == 4      \* lines of the text file given to ascii.read

\* ------------------------------------------------------------ header model
None == "None"

\* Keyword spellings the cells use, and the case-folding the header applies
\* to a keyword before every lookup.
Spellings == {"crpix1", "CRPIX1", "NOBS", "history", "comment"}

Upper(s) ==
  CASE s = "crpix1"  -> "CRPIX1"
    [] s = "nobs"    -> "NOBS"
    [] s = "history" -> "HISTORY"
    [] s = "comment" -> "COMMENT"
    [] OTHER         -> s

UpperIdentity(s) == s

NormalizeKeyword(s) == Upper(s)

Commentary == {"HISTORY", "COMMENT"}

\* Card values (also used as the texts of commentary cards) and the comment
\* of an assignment, None when a bare value is assigned.
Values   == {"2", "12"}
Comments == {None, "Number of observing nights"}

Card(k, v, c) == [key |-> k, value |-> v, comment |-> c]

Indices(h, k) == {i \in 1..Len(h) : h[i].key = k}

Min(S) == CHOOSE x \in S : \A y \in S : x <= y
Max(S) == CHOOSE x \in S : \A y \in S : x >= y

InsertAt(h, i, c) == SubSeq(h, 1, i) \o <<c>> \o SubSeq(h, i + 1, Len(h))

RECURSIVE Without(_, _)
Without(h, k) ==
  IF h = <<>> THEN <<>>
  ELSE IF Head(h).key = k THEN Without(Tail(h), k)
       ELSE <<Head(h)>> \o Without(Tail(h), k)

RECURSIVE ValuesOf(_, _)
ValuesOf(h, k) ==
  IF h = <<>> THEN <<>>
  ELSE IF Head(h).key = k THEN <<Head(h).value>> \o ValuesOf(Tail(h), k)
       ELSE ValuesOf(Tail(h), k)

\* Position after the last card that is not a commentary card.
LastOrdinary(h) ==
  LET S == {i \in 1..Len(h) : h[i].key \notin Commentary}
  IN  IF S = {} THEN 0 ELSE Max(S)

\* header[key]: KeyError when the keyword is absent; a commentary keyword
\* yields all its values, an ordinary keyword the value of its card.
HeaderGet(h, s) ==
  LET k == NormalizeKeyword(s) IN
  IF Indices(h, k) = {} THEN [err |-> "KeyError", val |-> <<>>]
  ELSE IF k \in Commentary THEN [err |-> "none", val |-> ValuesOf(h, k)]
  ELSE [err |-> "none", val |-> <<h[Min(Indices(h, k))].value>>]

SetOverwriteCommentary(h, s, v, c) ==
  LET k == NormalizeKeyword(s) IN
  IF Indices(h, k) # {}
  THEN [h EXCEPT ![Min(Indices(h, k))] =
          Card(k, v, IF c = None THEN @.comment ELSE c)]
  ELSE Append(h, Card(k, v, IF c = None THEN "" ELSE c))

SetMoveToEnd(h, s, v, c) ==
  LET k == NormalizeKeyword(s) IN
  IF k \in Commentary THEN Append(h, Card(k, v, ""))
  ELSE Append(Without(h, k), Card(k, v, IF c = None THEN "" ELSE c))

\* header[key] = value  /  header[key] = (value, comment)
\* An ordinary keyword that is present is updated in its card; a commentary
\* keyword always gets a new card, placed after the last card of the same
\* keyword (at the bottom when there is none); a new ordinary keyword is
\* placed after the last non-commentary card.
HeaderSet(h, s, v, c) ==
  LET k == NormalizeKeyword(s) IN
  IF k \notin Commentary /\ Indices(h, k) # {}
  THEN [h EXCEPT ![Min(Indices(h, k))] =
          Card(k, v, IF c = None THEN @.comment ELSE c)]
  ELSE IF k \in Commentary
  THEN IF Indices(h, k) # {}
       THEN InsertAt(h, Max(Indices(h, k)), Card(k, v, ""))
       ELSE Append(h, Card(k, v, ""))
  ELSE InsertAt(h, LastOrdinary(h), Card(k, v, IF c = None THEN "" ELSE c))

DelFirstOnly(h, s) ==
  LET k == NormalizeKeyword(s) IN
  IF Indices(h, k) = {} THEN [err |-> "KeyError", hdr |-> h]
  ELSE LET i == Min(Indices(h, k)) IN
       [err |-> "none", hdr |-> SubSeq(h, 1, i - 1) \o SubSeq(h, i + 1, Len(h))]

\* del header[key]: KeyError when the keyword is absent, otherwise every
\* card of that keyword is deleted.
HeaderDel(h, s) ==
  LET k == NormalizeKeyword(s) IN
  IF Indices(h, k) = {} THEN [err |-> "KeyError", hdr |-> h]
  ELSE [err |-> "none", hdr |-> Without(h, k)]

\* -------------------------------------------------------------- data model
Pixels  == 1..NPix
PixVals == {"50", "200"}

NoSnap == [i \in Pixels |-> "50"]

GetDataCopy(a) == [cur |-> TRUE, alias |-> FALSE, snap |-> a]

\* scidata = f[0].data : the name is bound to the HDU's own array, so the
\* result refers to the container's storage and holds no elements itself.
GetData(a) == [cur |-> TRUE, alias |-> TRUE, snap |-> NoSnap]

\* Element i as seen through view v while the container's array is a.
ReadView(v, a, i) == IF v.alias THEN a[i] ELSE v.snap[i]

\* A name that still refers to the array of a container `f` no longer names:
\* the array lives on as an object of its own.
Detach(v, a) ==
  [cur |-> FALSE, alias |-> FALSE, snap |-> [i \in Pixels |-> ReadView(v, a, i)]]

\* ------------------------------------------------------------------- state
VARIABLES
  diskHdr,   \* header stored in the FITS file
  diskArr,   \* image array stored in the FITS file
  fstate,    \* the name f: "unbound", "open" or "closed"
  mode,      \* mode f was opened with
  inWith,    \* control is inside a `with fits.open(...) as f:` block
  loaded,    \* f has read the HDU the header cells index
  hdr,       \* f's in-memory header
  arr,       \* f's in-memory image array
  released,  \* times the file handle of f was closed since f was opened
  exit,      \* how the with block was left by the last step, if it was
  views,     \* arrays obtained from containers and still referenced
  lastOp,    \* the statement executed last and its outcome
  nops,      \* edits executed so far
  text,      \* lines of the text file handed to ascii.read
  table      \* result of the last ascii.read

vars == <<diskHdr, diskArr, fstate, mode, inWith, loaded, hdr, arr, released,
          exit, views, lastOp, nops, text, table>>

Modes == {"readonly", "update"}

\* A statement and its outcome; for a lookup, prev is the keyword spelling of
\* the assignment executed just before it, if there was one.
Op(o, k, a, c, e, v) ==
  [op |-> o, key |-> k, arg |-> a, cmt |-> c, err |-> e, val |-> v, prev |-> ""]

NoOp == Op("none", "", "", "", "none", <<>>)

Lookup(o, k, r, last) ==
  [op |-> o, key |-> k, arg |-> "", cmt |-> "", err |-> r.err, val |-> r.val,
   prev |-> IF last.op \in {"set", "setval"} THEN last.key ELSE ""]

GetUnitStrict(st, ld, h) ==
  IF st = "closed" THEN [err |-> "UseAfterCloseError", hdr |-> <<>>]
  ELSE [err |-> "none", hdr |-> h]

\* f[1]  /  f[("SCI", 1)]: an open list reads the HDU from the file when it
\* has not yet; a closed list still holds the HDUs it read and has no other.
GetUnit(st, ld, h) ==
  IF st = "closed" /\ ~ld THEN [err |-> "IndexError", hdr |-> <<>>]
  ELSE [err |-> "none", hdr |-> h]

NoTable == [call |-> <<>>, res |-> [err |-> "none", names |-> <<>>, rows |-> <<>>]]

\* ---------------------------------------------------------- close / flush
FlushOnlyOnSuccess(isOpen, m, how, mem, dsk) ==
  IF isOpen /\ m = "update" /\ how # "error" THEN mem ELSE dsk

\* HDUList.close(): a container opened in update mode writes its pending
\* changes back to the file before the handle is closed, however the close
\* came about (how: "close", "normal" or "error").
Flushed(isOpen, m, how, mem, dsk) ==
  IF isOpen /\ m = "update" THEN mem ELSE dsk

\* The file handle is closed when it is still open.
Release(isOpen, n) == IF isOpen THEN n + 1 ELSE n

\* The effects of f.close(), also run by the with statement on leaving the
\* block; newHdr is f's header at that moment, touched tells that the
\* statement leaving the block had indexed the HDU.  Flushing an update-mode
\* list reads every HDU first.
CloseEffects(newHdr, how, touched) ==
  /\ diskHdr' = Flushed(fstate = "open", mode, how, newHdr, diskHdr)
  /\ diskArr' = Flushed(fstate = "open", mode, how, arr, diskArr)
  /\ released' = Release(fstate = "open", released)
  /\ loaded' = (loaded \/ touched \/ (fstate = "open" /\ mode = "update"))
  /\ fstate' = "closed"
  /\ inWith' = FALSE

\* A statement raised: inside a with block the exception leaves the block,
\* which closes f; elsewhere the cell stops and f stays as it is.
Raise(newHdr, touched) ==
  IF inWith
  THEN /\ CloseEffects(newHdr, "error", touched)
       /\ exit' = "error"
  ELSE /\ UNCHANGED <<diskHdr, diskArr, released, fstate, inWith, loaded>>
       /\ exit' = "none"

NoExit == /\ exit' = "none"
          /\ UNCHANGED <<diskHdr, diskArr, released, fstate, inWith, loaded>>

\* ------------------------------------------------------------------- Init
\* Headers the file can hold when the notebook starts: the image extension
\* carries CRPIX1; a file the cells have updated before also carries
\* commentary cards.
InitHdrs ==
  { <<Card("CRPIX1", "2", "")>>,
    <<Card("CRPIX1", "2", ""), Card("COMMENT", "2", "")>> }

InitFits ==
  /\ diskHdr \in InitHdrs
  /\ diskArr = [i \in Pixels |-> "50"]
  /\ fstate = "unbound"
  /\ mode = "readonly"
  /\ inWith = FALSE
  /\ loaded = FALSE
  /\ hdr = <<>>
  /\ arr = [i \in Pixels |-> "50"]
  /\ released = 0
  /\ exit = "none"
  /\ views = {}
  /\ lastOp = NoOp
  /\ nops = 0

Init ==
  /\ InitFits
  /\ text = <<>>
  /\ table = NoTable

\* ------------------------------------------------------------ life cycle
Load(m, scoped) ==
  /\ fstate # "open"
  /\ fstate' = "open"
  /\ mode' = m
  /\ inWith' = scoped
  /\ loaded' = FALSE
  /\ hdr' = diskHdr
  /\ arr' = diskArr
  /\ released' = 0
  /\ exit' = "none"
  /\ views' = {Detach(v, arr) : v \in views}
  /\ UNCHANGED <<diskHdr, diskArr, nops, text, table>>

\* f = fits.open(name)  /  f = fits.open(name, mode='update')
Open(m) ==
  /\ Load(m, FALSE)
  /\ lastOp' = Op("open", "", m, "", "none", <<>>)

\* with fits.open(name, mode=m) as f:
WithEnter(m) ==
  /\ Load(m, TRUE)
  /\ lastOp' = Op("with", "", m, "", "none", <<>>)

\* f.close()
Close ==
  /\ fstate = "open"
  /\ ~inWith
  /\ CloseEffects(hdr, "close", FALSE)
  /\ exit' = "none"
  /\ lastOp' = Op("close", "", "", "", "none", <<>>)
  /\ UNCHANGED <<mode, hdr, arr, views, nops, text, table>>

\* control reaches the end of the with block
WithExit ==
  /\ inWith
  /\ CloseEffects(hdr, "normal", FALSE)
  /\ exit' = "normal"
  /\ lastOp' = Op("with_exit", "", "", "", "none", <<>>)
  /\ UNCHANGED <<mode, hdr, arr, views, nops, text, table>>

\* a statement of the block raises an error of its own
WithBodyError ==
  /\ inWith
  /\ Raise(hdr, FALSE)
  /\ lastOp' = Op("raise", "", "", "", "Error", <<>>)
  /\ UNCHANGED <<mode, hdr, arr, views, nops, text, table>>

\* ------------------------------------------------------------ header cells
\* A statement raised outside the HDU's header: f is as it was.
Failed(o, s, e) ==
  /\ lastOp' = Op(o, s, "", "", e, <<>>)
  /\ Raise(hdr, FALSE)
  /\ UNCHANGED <<hdr, nops>>

\* f.info(): every HDU is read and listed
Info ==
  /\ fstate = "open"
  /\ loaded' = TRUE
  /\ exit' = "none"
  /\ lastOp' = Op("info", "", "", "", "none", <<>>)
  /\ UNCHANGED <<diskHdr, diskArr, fstate, mode, inWith, hdr, arr, released,
                 views, nops, text, table>>

\* The statement indexes f[1] on an open f: the HDU is read now.
Touch == /\ exit' = "none"
         /\ loaded' = TRUE
         /\ UNCHANGED <<diskHdr, diskArr, released, fstate, inWith>>

\* f[1].header[key]
HdrGet(s) ==
  /\ fstate # "unbound"
  /\ LET u == GetUnit(fstate, loaded, hdr)
         r == HeaderGet(u.hdr, s) IN
       IF u.err # "none" THEN Failed("get", s, u.err)
       ELSE /\ lastOp' = Lookup("get", s, r, lastOp)
            /\ IF r.err = "none" THEN Touch
               ELSE IF inWith THEN Raise(hdr, TRUE)
               ELSE Touch
            /\ UNCHANGED <<hdr, nops>>
  /\ UNCHANGED <<mode, arr, views, text, table>>

\* f[1].header[key] = v   /   f[1].header[key] = (v, c)
HdrSet(s, v, c) ==
  /\ fstate # "unbound"
  /\ nops < MaxOps
  /\ LET u == GetUnit(fstate, loaded, hdr) IN
       IF u.err # "none" THEN Failed("set", s, u.err)
       ELSE /\ hdr' = HeaderSet(u.hdr, s, v, c)
            /\ nops' = nops + 1
            /\ lastOp' = Op("set", s, v, c, "none", <<>>)
            /\ Touch
  /\ UNCHANGED <<mode, arr, views, text, table>>

\* del f[1].header[key]
HdrDel(s) ==
  /\ fstate # "unbound"
  /\ nops < MaxOps
  /\ LET u == GetUnit(fstate, loaded, hdr)
         r == HeaderDel(u.hdr, s) IN
       IF u.err # "none" THEN Failed("del", s, u.err)
       ELSE /\ hdr' = r.hdr
            /\ nops' = nops + 1
            /\ lastOp' = Op("del", s, "", "", r.err, <<>>)
            /\ IF r.err = "none" THEN Touch
               ELSE IF inWith THEN Raise(r.hdr, TRUE)
               ELSE Touch
  /\ UNCHANGED <<mode, arr, views, text, table>>

\* -------------------------------------------------------------- data cells
\* scidata = f[0].data
TakeData ==
  /\ fstate = "open"
  /\ Cardinality(views \cup {GetData(arr)}) <= MaxViews
  /\ views' = views \cup {GetData(arr)}
  /\ lastOp' = Op("getdata", "", "", "", "none", <<>>)
  /\ NoExit
  /\ UNCHANGED <<mode, hdr, arr, nops, text, table>>

\* scidata[i] = x
ViewWrite(v, i, x) ==
  /\ v \in views
  /\ nops < MaxOps
  /\ IF v.alias
     THEN /\ arr' = [arr EXCEPT ![i] = x]
          /\ views' = views
     ELSE /\ arr' = arr
          /\ views' = (views \ {v}) \cup {[v EXCEPT !.snap[i] = x]}
  /\ nops' = nops + 1
  /\ lastOp' = Op("viewwrite", "", x, "", "none", <<>>)
  /\ NoExit
  /\ UNCHANGED <<mode, hdr, text, table>>

\* f[0].data[i] = x
DataWrite(i, x) ==
  /\ fstate = "open"
  /\ nops < MaxOps
  /\ arr' = [arr EXCEPT ![i] = x]
  /\ nops' = nops + 1
  /\ lastOp' = Op("datawrite", "", x, "", "none", <<>>)
  /\ NoExit
  /\ UNCHANGED <<mode, hdr, views, text, table>>

\* ---------------------------------------------------- convenience functions
\* fits.setval(name, keyword=key, value=v): the file is opened for update,
\* the keyword is set and the file is closed again.
Setval(s, v) ==
  /\ fstate # "open"
  /\ nops < MaxOps
  /\ diskHdr' = HeaderSet(diskHdr, s, v, None)
  /\ nops' = nops + 1
  /\ lastOp' = Op("setval", s, v, "", "none", <<>>)
  /\ exit' = "none"
  /\ UNCHANGED <<diskArr, fstate, mode, inWith, loaded, hdr, arr, released, views,
                 text, table>>

\* fits.getval(name, keyword=key)
Getval(s) ==
  /\ fstate # "open"
  /\ LET r == HeaderGet(diskHdr, s) IN
       lastOp' = Lookup("getval", s, r, lastOp)
  /\ exit' = "none"
  /\ UNCHANGED <<diskHdr, diskArr, fstate, mode, inWith, loaded, hdr, arr, released,
                 views, nops, text, table>>

\* fits.delval(name, keyword=key)
Delval(s) ==
  /\ fstate # "open"
  /\ nops < MaxOps
  /\ LET r == HeaderDel(diskHdr, s) IN
       /\ diskHdr' = r.hdr
       /\ lastOp' = Op("delval", s, "", "", r.err, <<>>)
  /\ nops' = nops + 1
  /\ exit' = "none"
  /\ UNCHANGED <<diskArr, fstate, mode, inWith, loaded, hdr, arr, released, views,
                 text, table>>

\* --------------------------------------------------------------- ascii.read
\* A line of the text file is the sequence of its whitespace-separated
\* tokens; a blank line has none and a comment line starts with "#".
Lines ==
  { <<"#">>, <<"note">>, <<"lambda", "throughput">>, <<"0.5", "0.1">>,
    <<"0.6", "0.2">> }

RECURSIVE FilesOfLen(_)
FilesOfLen(n) ==
  IF n = 0 THEN {<<>>}
  ELSE {Append(f, l) : f \in FilesOfLen(n - 1), l \in Lines}

Files == UNION {FilesOfLen(n) : n \in 0..MaxLines}

Starts    == 0..3    \* the notebook passes header_start=2 and data_start=3
NamesArgs == {<<>>, <<"w", "t">>}

IsKept(l) == l # <<>> /\ Head(l) # "#"

\* The reader drops blank lines and comment lines before it counts lines.
RECURSIVE ProcessLines(_)
ProcessLines(f) ==
  IF f = <<>> THEN <<>>
  ELSE IF IsKept(Head(f)) THEN <<Head(f)>> \o ProcessLines(Tail(f))
       ELSE ProcessLines(Tail(f))

LineIndexOneBased(n) == IF n = 0 THEN 1 ELSE n

\* header_start and data_start count the kept lines from 0.
LineIndex(n) == n + 1

Result(e, n, r) == [err |-> e, names |-> n, rows |-> r]

\* ascii.read(name, header_start=hs, data_start=ds, names=nm); nm = <<>>
\* stands for a call without names.
AsciiRead(f, hs, ds, nm) ==
  LET L    == ProcessLines(f)
      h    == LineIndex(hs)
      d    == LineIndex(ds)
      rows == SubSeq(L, d, Len(L))
  IN  IF h > Len(L) THEN Result("ValueError", <<>>, <<>>)
      ELSE IF \E j \in 1..Len(rows) : Len(rows[j]) # Len(L[h])
      THEN Result("InconsistentTableError", <<>>, <<>>)
      ELSE IF nm # <<>> /\ Len(nm) # Len(L[h])
      THEN Result("InconsistentTableError", <<>>, <<>>)
      ELSE Result("none", IF nm # <<>> THEN nm ELSE L[h], rows)

InitTable ==
  /\ InitFits
  /\ text \in Files
  /\ table = [call |-> <<>>, res |-> Result("none", <<>>, <<>>)]

\* throughput_data = ascii.read('throughput.txt', data_start=ds, header_start=hs)
\* throughput_data = ascii.read(..., names=nm)
Read(hs, ds, nm) ==
  /\ table' = [call |-> <<[hs |-> hs, ds |-> ds, nm |-> nm]>>,
               res  |-> AsciiRead(text, hs, ds, nm)]
  /\ UNCHANGED <<diskHdr, diskArr, fstate, mode, inWith, loaded, hdr, arr,
                 released, exit, views, lastOp, nops, text>>

NextTable == \E hs \in Starts, ds \in Starts, nm \in NamesArgs : Read(hs, ds, nm)

\* ---------------------------------------------------------- specifications
\* The header cells of the notebook; the convenience functions are called as
\* the notebook calls them, with a lower-case keyword to set and the
\* upper-case keyword to read and delete.
NextHeader ==
  \/ \E m \in Modes : Open(m)
  \/ Info
  \/ \E m \in Modes : WithEnter(m)
  \/ Close
  \/ WithExit
  \/ WithBodyError
  \/ \E s \in Spellings : HdrGet(s)
  \/ \E s \in Spellings, v \in Values, c \in Comments : HdrSet(s, v, c)
  \/ \E s \in Spellings : HdrDel(s)
  \/ \E v \in Values : Setval("crpix1", v)
  \/ Getval("CRPIX1")
  \/ Delval("CRPIX1")

SpecHeader == Init /\ [][NextHeader]_vars

\* The image cells of the notebook, with the header cell of the first with
\* block (read crpix1, reassign crpix1).
NextData ==
  \/ \E m \in Modes : Open(m)
  \/ Info
  \/ \E m \in Modes : WithEnter(m)
  \/ Close
  \/ WithExit
  \/ WithBodyError
  \/ \E s \in {"crpix1", "NOBS"} : HdrGet(s)
  \/ \E v \in Values : HdrSet("crpix1", v, None)
  \/ TakeData
  \/ \E v \in views, i \in Pixels, x \in PixVals : ViewWrite(v, i, x)
  \/ \E i \in Pixels, x \in PixVals : DataWrite(i, x)

SpecData == Init /\ [][NextData]_vars

\* The text-table cells of the notebook.
SpecTable == InitTable /\ [][NextTable]_vars

\* ------------------------------------------------------------------ claims
RemoveAt(h, i) == SubSeq(h, 1, i - 1) \o SubSeq(h, i + 1, Len(h))

OrdinaryKeys == {"CRPIX1", "NOBS"}

\* The step is an executed header assignment / deletion on f.
SetStep == lastOp'.op = "set" /\ lastOp'.err = "none" /\ nops' = nops + 1
DelStep == lastOp'.op = "del" /\ nops' = nops + 1

StoredComment(c, old) == IF c = None THEN old ELSE c

\* C1: inside a with block the file handle is held and not yet released; at
\* the moment the block is left, normally or by an error raised in it, the
\* handle has been released exactly once and, for a container opened for
\* update, the file holds the in-memory header and data.
C1_ScopedRelease ==
  /\ inWith => (fstate = "open" /\ released = 0)
  /\ exit # "none" =>
       /\ fstate = "closed"
       /\ ~inWith
       /\ released = 1
       /\ mode = "update" => (diskHdr = hdr /\ diskArr = arr)

\* A with block opened for update was left by a KeyError after a header edit
\* and a data edit, and both edits are in the file.
C1_Witness ==
  /\ exit = "error"
  /\ mode = "update"
  /\ lastOp.err = "KeyError"
  /\ released = 1
  /\ diskHdr[1].value = "12"
  /\ \E i \in Pixels : diskArr[i] = "200"

C3_Original ==
  [][DelStep =>
       LET k == Upper(lastOp'.key) IN
       IF Indices(hdr, k) = {}
       THEN lastOp'.err = "KeyError" /\ hdr' = hdr
       ELSE lastOp'.err = "none" /\ hdr' = RemoveAt(hdr, Min(Indices(hdr, k)))]_vars

\* C3 as amended: deleting an absent keyword raises KeyError and leaves the
\* header unchanged; deleting a present keyword removes every card of that
\* keyword and keeps all other cards, with their values and order.
C3_DeleteAll ==
  [][DelStep =>
       LET k == Upper(lastOp'.key) IN
       IF Indices(hdr, k) = {}
       THEN lastOp'.err = "KeyError" /\ hdr' = hdr
       ELSE /\ lastOp'.err = "none"
            /\ Indices(hdr', k) = {}
            /\ Len(hdr') = Len(hdr) - Cardinality(Indices(hdr, k))
            /\ hdr' = SelectSeq(hdr, LAMBDA c : c.key # k)]_vars

\* A del of "comment" on a header with two COMMENT cards left only CRPIX1.
C3_Witness ==
  /\ lastOp.op = "del"
  /\ lastOp.key = "comment"
  /\ lastOp.err = "none"
  /\ nops = 2
  /\ Len(diskHdr) = 2
  /\ Len(hdr) = 1

\* C4: an assignment to an ordinary keyword that is absent adds one card and
\* changes no other; to one that is present it changes the value, and the
\* comment only when one is given, in the card's position, and changes no
\* other card.  No ordinary keyword ever has two cards.
C4_SetInPlace ==
  [][/\ \A q \in OrdinaryKeys : Cardinality(Indices(hdr', q)) <= 1
     /\ (SetStep /\ Upper(lastOp'.key) \notin Commentary) =>
          LET k == Upper(lastOp'.key)
              v == lastOp'.arg
              c == lastOp'.cmt
          IN  IF Indices(hdr, k) = {}
              THEN /\ Len(hdr') = Len(hdr) + 1
                   /\ \E i \in 1..Len(hdr') :
                        /\ hdr'[i] = Card(k, v, StoredComment(c, ""))
                        /\ RemoveAt(hdr', i) = hdr
              ELSE LET i == Min(Indices(hdr, k)) IN
                   /\ Len(hdr') = Len(hdr)
                   /\ hdr'[i] = Card(k, v, StoredComment(c, hdr[i].comment))
                   /\ \A j \in 1..Len(hdr) : j # i => hdr'[j] = hdr[j]]_vars

\* NOBS was given a comment, then reassigned without one: the card kept its
\* place between CRPIX1 and the COMMENT card, and kept its comment.
C4_Witness ==
  /\ lastOp.op = "set"
  /\ lastOp.key = "NOBS"
  /\ lastOp.cmt = None
  /\ Len(hdr) = 3
  /\ hdr[1].key = "CRPIX1"
  /\ hdr[2] = Card("NOBS", "12", "Number of observing nights")
  /\ hdr[3].key = "COMMENT"

\* C5: a lookup that follows an assignment to the same ordinary keyword in
\* any letter case returns the assigned value (header[...] and
\* setval/getval), and a second assignment in another letter case updates
\* the one card of the keyword.
C5_CaseInsensitive ==
  [][/\ ( /\ lastOp.op = "set" /\ lastOp.err = "none"
          /\ lastOp'.op = "get"
          /\ Upper(lastOp'.key) = Upper(lastOp.key)
          /\ Upper(lastOp.key) \notin Commentary )
        => (lastOp'.err = "none" /\ lastOp'.val = <<lastOp.arg>>)
     /\ ( /\ lastOp.op = "setval"
          /\ lastOp'.op = "getval"
          /\ Upper(lastOp'.key) = Upper(lastOp.key)
          /\ Upper(lastOp.key) \notin Commentary )
        => (lastOp'.err = "none" /\ lastOp'.val = <<lastOp.arg>>)
     /\ ( /\ lastOp.op = "set" /\ lastOp.err = "none"
          /\ SetStep
          /\ Upper(lastOp'.key) = Upper(lastOp.key)
          /\ Upper(lastOp.key) \notin Commentary )
        => /\ Len(hdr') = Len(hdr)
           /\ Cardinality(Indices(hdr', Upper(lastOp.key))) = 1]_vars

\* header['crpix1'] = 12 was followed by header['CRPIX1'], which gave 12.
C5_Witness ==
  /\ lastOp.op = "get"
  /\ lastOp.key = "CRPIX1"
  /\ lastOp.prev = "crpix1"
  /\ lastOp.err = "none"
  /\ lastOp.val = <<"12">>

\* C6: every array taken from the container f, and one taken afresh, shows
\* at each element what f's array holds, whichever of them was written to.
C6_Aliasing ==
  \A v \in views \cup {GetData(arr)} :
     v.cur => \A i \in Pixels : ReadView(v, arr, i) = arr[i]

\* An element was written through scidata while f was open; f's array and a
\* fresh f[0].data show the new value, which the file does not hold.
C6_Witness ==
  /\ fstate = "open"
  /\ lastOp.op = "viewwrite"
  /\ \E v \in views : v.cur
  /\ \E i \in Pixels :
       /\ arr[i] = "200"
       /\ diskArr[i] = "50"
       /\ ReadView(GetData(arr), arr, i) = "200"

\* C8 as stated: no array taken from f is alive while f is closed, and every
\* header access through a closed f fails with UseAfterCloseError.
C8_Original ==
  /\ (\E v \in views : v.cur) => fstate # "closed"
  /\ (fstate = "closed" /\ exit = "none" /\ lastOp.op \in {"get", "set", "del"})
       => lastOp.err = "UseAfterCloseError"

\* C8 as amended: a statement executed while f is closed leaves the file and
\* its handle alone and never fails with UseAfterCloseError; a header access
\* fails (IndexError) exactly when the HDU was not read before f was closed,
\* and otherwise acts on the in-memory header: a lookup returns the stored
\* value or KeyError.  An array taken from f before stays what f's array is.
C8_ReleasedAccess ==
  [][(fstate = "closed" /\ fstate' = "closed") =>
       /\ diskHdr' = diskHdr
       /\ diskArr' = diskArr
       /\ released' = released
       /\ lastOp'.err \in {"none", "KeyError", "IndexError"}
       /\ lastOp'.op \in {"get", "set", "del"} =>
            /\ (lastOp'.err = "IndexError") <=> ~loaded
            /\ (lastOp'.op = "get" /\ lastOp'.err = "none") =>
                 \E i \in 1..Len(hdr) :
                    /\ hdr[i].key = Upper(lastOp'.key)
                    /\ lastOp'.val = <<hdr[i].value>>
            /\ (lastOp'.op = "get" /\ lastOp'.err = "KeyError") =>
                 Indices(hdr, Upper(lastOp'.key)) = {}
       /\ \A v \in views' : v.cur => \A i \in Pixels : ReadView(v, arr', i) = arr'[i]]_vars

\* f was closed while scidata was alive, and a lookup through the closed f
\* returned the value assigned before.
C8_Witness ==
  /\ fstate = "closed"
  /\ exit = "none"
  /\ \E v \in views : v.cur
  /\ lastOp.op = "get"
  /\ lastOp.err = "none"
  /\ lastOp.val = <<"12">>

\* The lines the reader counts.
Kept == SelectSeq(text, LAMBDA l : l # <<>> /\ l[1] # "#")

\* C10 as stated: header_start and data_start are 1-indexed line numbers of
\* the file: the names are line header_start unless names are passed, and
\* the rows are the lines from line data_start to the end.
C10_Original ==
  (table.call # <<>> /\ table.res.err = "none") =>
     LET c == table.call[1]
         r == table.res
     IN  /\ (c.nm = <<>> /\ c.hs \in 1..Len(text)) => r.names = text[c.hs]
         /\ c.nm # <<>> => r.names = c.nm
         /\ c.ds \in 1..Len(text) =>
              /\ Len(r.rows) = Len(text) - c.ds + 1
              /\ r.rows = SubSeq(text, c.ds, Len(text))

\* C10 as amended: header_start and data_start are 0-indexed and count the
\* lines left after blank and comment lines are dropped.  A read succeeds
\* only if line header_start exists; the names are that line unless names
\* are passed; every counted line from data_start on is one row, in file
\* order, whether or not the header line is among them; a row, or passed
\* names, with another number of columns than the header line fails.
C10_ZeroBased ==
  table.call # <<>> =>
     LET c == table.call[1]
         r == table.res
         n == Len(Kept)
     IN  /\ r.err = "none" =>
              /\ c.hs < n
              /\ r.names = (IF c.nm # <<>> THEN c.nm ELSE Kept[c.hs + 1])
              /\ Len(r.rows) = (IF c.ds >= n THEN 0 ELSE n - c.ds)
              /\ \A j \in 1..Len(r.rows) :
                   /\ r.rows[j] = Kept[c.ds + j]
                   /\ Len(r.rows[j]) = Len(r.names)
         /\ ( /\ c.hs < n
              /\ \/ \E j \in (c.ds + 1)..n : Len(Kept[j]) # Len(Kept[c.hs + 1])
                 \/ (c.nm # <<>> /\ Len(c.nm) # Len(Kept[c.hs + 1])) )
            => r.err = "InconsistentTableError"
         /\ c.hs >= n => r.err # "none"

\* Two lines of commentary, the names on the third line, one row after it,
\* read with header_start=2 and data_start=3.
C10_Witness ==
  /\ text = << <<"note">>, <<"note">>, <<"lambda", "throughput">>, <<"0.5", "0.1">> >>
  /\ table.call = <<[hs |-> 2, ds |-> 3, nm |-> <<>>]>>
  /\ table.res = Result("none", <<"lambda", "throughput">>, << <<"0.5", "0.1">> >>)

====
